---- MODULE Spec2Model ----
(***************************************************************************)
(* Model of quickjs/native/jni/mapping/jobject_to_js_value.c: the          *)
(* recursive conversion of a host (JVM) value into a QuickJS value.        *)
(*                                                                         *)
(* The C call stack is the variable `stack`: one frame per container       *)
(* conversion in progress (jobject_to_js_value together with the converter *)
(* it dispatches to).  Scalar elements are converted inside the step that  *)
(* visits them.  The QuickJS runtime (the values allocated, the pending    *)
(* exception, the JS_Throw history) is the variable `rt`.                  *)
(***************************************************************************)
EXTENDS Integers, Sequences, FiniteSets, TLC

VARIABLES
    heap,       \* the host object graph: Obj -> [cls, items]
    jsGlobals,  \* names defined on the destination global object
    stack,      \* the C call stack of container conversions
    ret,        \* the JSValue just returned by the callee (or NoValue)
    rt,         \* the QuickJS runtime: [objs, pending, thrown]
    last,       \* <<>> or <<the call that returned last: frame, result, runtime>>
    crashed,    \* the C stack is exhausted
    probe,      \* a single host value handed to the type dispatcher
    out         \* what the dispatcher made of `probe`

vars == <<heap, jsGlobals, stack, ret, rt, last, crashed, probe, out>>

----------------------------------------------------------------------------
(* Bounds *)

\* total number of element slots (list elements, set members, map keys and
\* map values) in the host object graph
MaxCells == 4

\* depth of the C stack, in container conversions, at which it is exhausted
MaxDepth == 3

----------------------------------------------------------------------------
(* The host object model *)

\* container objects of the graph; "A" is the value handed to the converter
Obj == {"A", "B"}

\* scalar elements: a java.lang.String, and an object of a class the
\* converter has no rule for
Leaves == {"Str", "Bad"}

Ref == Obj \cup Leaves

Kinds == {"Boolean", "Integer", "Long", "Float", "Double", "String",
          "List", "JsObject", "Map", "Set", "Throwable"}

\* classes of the container objects: what they are an instance of, and the
\* class name
ContainerClasses == {"ArrayList", "JsObject", "LinkedHashMap", "HashSet",
                     "ObjectArray"}

IsaOfClass(cls) ==
    CASE cls = "ArrayList"     -> {"List"}
      [] cls = "JsObject"      -> {"JsObject", "Map"}
      [] cls = "LinkedHashMap" -> {"Map"}
      [] cls = "HashSet"       -> {"Set"}
      [] cls = "ObjectArray"   -> {}
      [] cls = "Str"           -> {"String"}
      [] OTHER                 -> {}

NameOfClass(cls) ==
    CASE cls = "ArrayList"     -> "java.util.ArrayList"
      [] cls = "JsObject"      -> "com.dokar.quickjs.binding.JsObject"
      [] cls = "LinkedHashMap" -> "java.util.LinkedHashMap"
      [] cls = "HashSet"       -> "java.util.HashSet"
      [] cls = "ObjectArray"   -> "[Ljava.lang.Object;"
      [] cls = "Str"           -> "java.lang.String"
      [] OTHER                 -> "java.lang.Object"

ClassNames == {"kotlin.Unit", "[Z", "[I", "[J", "[F", "[D",
               "[Ljava.lang.Object;", "[[I", "java.lang.Object"}

\* '[' == cls_name[0]
StartsWithBracket(name) ==
    name \in {"[Z", "[I", "[J", "[F", "[D", "[Ljava.lang.Object;", "[[I"}

ClassOf(x) == IF x \in Obj THEN heap[x].cls ELSE x
Items(x) == heap[x].items
Size(x) == Len(heap[x].items)

\* (*env)->IsSameObject(env, a, b)
IsSameObject(a, b) == a = b

\* (*env)->IsInstanceOf(env, key, cls_str)
IsStringKey(key) == "String" \in IsaOfClass(ClassOf(key))

----------------------------------------------------------------------------
(* The type dispatcher: the instance-of chain and the class-name fallback *)

DispatchMapBeforeJsObject(isa, name) ==
    IF "Boolean" \in isa THEN "Boolean"
    ELSE IF "Integer" \in isa THEN "Integer"
    ELSE IF "Long" \in isa THEN "Long"
    ELSE IF "Float" \in isa THEN "Float"
    ELSE IF "Double" \in isa THEN "Double"
    ELSE IF "String" \in isa THEN "String"
    ELSE IF "List" \in isa THEN "List"
    ELSE IF "Map" \in isa THEN "Map"
    ELSE IF "JsObject" \in isa THEN "JsObject"
    ELSE IF "Set" \in isa THEN "Set"
    ELSE IF "Throwable" \in isa THEN "Throwable"
    ELSE IF name = "kotlin.Unit" THEN "Unit"
    ELSE IF name \in {"[Z", "[I", "[J", "[F", "[D"} THEN name
    ELSE IF StartsWithBracket(name) THEN "ObjectArray"
    ELSE "Unsupported"

Dispatch(isa, name) ==
    IF "Boolean" \in isa THEN "Boolean"
    ELSE IF "Integer" \in isa THEN "Integer"
    ELSE IF "Long" \in isa THEN "Long"
    ELSE IF "Float" \in isa THEN "Float"
    ELSE IF "Double" \in isa THEN "Double"
    ELSE IF "String" \in isa THEN "String"
    ELSE IF "List" \in isa THEN "List"
    ELSE IF "JsObject" \in isa THEN "JsObject"
    ELSE IF "Map" \in isa THEN "Map"
    ELSE IF "Set" \in isa THEN "Set"
    ELSE IF "Throwable" \in isa THEN "Throwable"
    ELSE IF name = "kotlin.Unit" THEN "Unit"
    ELSE IF name \in {"[Z", "[I", "[J", "[F", "[D"} THEN name
    ELSE IF StartsWithBracket(name) THEN "ObjectArray"
    ELSE "Unsupported"

Route(x) == Dispatch(IsaOfClass(ClassOf(x)), NameOfClass(ClassOf(x)))

----------------------------------------------------------------------------
(* The QuickJS runtime *)

JS_EXCEPTION == [tag |-> "exception"]
JS_UNDEFINED == [tag |-> "undefined"]
JS_NULL == [tag |-> "null"]
NoValue == [tag |-> "none"]
JSRef(id) == [tag |-> "ref", id |-> id]

JS_IsException(v) == v.tag = "exception"
IsRefValue(v) == v.tag = "ref"
RefIds(v) == IF IsRefValue(v) THEN {v.id} ELSE {}

\* JS_NewArray / JS_NewObject / JS_NewString: a fresh value with one reference
JS_New(r, tag, slots) ==
    [r EXCEPT !.objs = Append(@, [tag |-> tag, slots |-> slots, freed |-> 0])]

NewId(r) == Len(r.objs) + 1

\* JS_SetPropertyUint32(ctx, obj, idx, val) / JS_SetProperty: stores val,
\* whatever it is, and takes over the caller's reference to it
JS_SetProperty(r, id, idx, val) ==
    [r EXCEPT !.objs[id].slots =
        IF idx = Len(@) + 1 THEN Append(@, val) ELSE [@ EXCEPT ![idx] = val]]

\* JS_FreeValue(ctx, v)
JS_FreeValue(r, id) == [r EXCEPT !.objs[id].freed = @ + 1]

\* JS_Throw(ctx, error): the error becomes the pending exception
JS_Throw(r, name) == [r EXCEPT !.pending = name, !.thrown = Append(@, name)]

throw_circular_ref_error(r) == JS_Throw(r, "CircularReferenceError")

\* new_js_object_from_constructor(context, constructor, 1, {js_array})
new_js_object_from_constructor(r, constructor, arg) ==
    IF constructor \notin jsGlobals
    THEN [rt |-> JS_Throw(r, "TypeMappingError"), val |-> JS_EXCEPTION,
          called |-> FALSE]
    ELSE [rt |-> JS_New(r, constructor, r.objs[arg].slots),
          val |-> JSRef(NewId(r)), called |-> TRUE]

----------------------------------------------------------------------------
(* Scalar branches of jobject_to_js_value *)

\* a 64-bit value as its two 32-bit words: hi signed, lo the low word read as
\* a signed jint; the value is hi * 2^32 + (lo mod 2^32)
JintSamples == {-1, 0, 5}
Longs == [hi : {-1, 0, 1}, lo : JintSamples]

\* (jlong) j, (double) j for a jint j: sign extension
FromJint(j) == [hi |-> IF j < 0 THEN -1 ELSE 0, lo |-> j]

\* what CallIntMethod can give back when the method id belongs to
\* java.lang.Integer and the receiver is a java.lang.Long: the JNI
\* specification leaves it undefined; a build either aborts or yields some
\* jint (the receiver's low word when the call lands on Long.intValue)
WrongReceiverOutcomes ==
    [kind : {"jint"}, j : JintSamples] \cup {[kind |-> "abort", j |-> 0]}

\* the branches of jobject_to_js_value that do not recurse; `route` is what
\* the dispatcher selected, `num` the boxed payload, `ub` the outcome of the
\* undefined CallIntMethod of the Long branch
ConvertScalar(r, route, num, ub) ==
    CASE route = "Boolean" ->
            [rt |-> r, val |-> [tag |-> "bool", b |-> (num.lo = 1)]]
      [] route = "Integer" ->
            [rt |-> r, val |-> [tag |-> "float64", num |-> FromJint(num.lo)]]
      [] route = "Long" ->
            IF ub.kind = "abort"
            THEN [rt |-> r, val |-> [tag |-> "abort"]]
            ELSE [rt |-> r, val |-> [tag |-> "int64", num |-> FromJint(ub.j)]]
      [] route \in {"Float", "Double"} ->
            [rt |-> r, val |-> [tag |-> "float64", num |-> num]]
      [] route = "String" ->
            [rt |-> JS_New(r, "String", <<>>), val |-> JSRef(NewId(r))]
      [] route = "Throwable" ->
            [rt |-> JS_New(r, "Error", <<>>), val |-> JSRef(NewId(r))]
      [] route = "Unit" ->
            [rt |-> r, val |-> JS_UNDEFINED]
      [] route \in {"[Z", "[I", "[J", "[F", "[D"} ->
            [rt |-> JS_New(r, "Array", <<>>), val |-> JSRef(NewId(r))]
      [] OTHER ->
            [rt |-> JS_Throw(r, "TypeMappingError"), val |-> JS_EXCEPTION]

Zero == [hi |-> 0, lo |-> 0]
NoUB == [kind |-> "jint", j |-> 0]

\* jobject_to_js_value on a scalar element of a container
ConvertLeaf(r, x) == ConvertScalar(r, Route(x), Zero, NoUB)

----------------------------------------------------------------------------
(* Frames of the C stack *)

\* The frame of one container conversion.  fn: the converter; v: the host
\* container; i: the slot the loop is at; js: the destination value under
\* construction; jk: the converted key (map); hasExc: has_exception;
\* refs: the per-element JNI references (and the key's UTF chars and atom)
\* held; own: the destination values this call holds a reference to.
\* Bookkeeping for the properties: r0 = Len(rt.thrown) at entry, circ = the
\* circular-reference errors this call raised, seen = slots fetched,
\* conv = slots handed to jobject_to_js_value, failAt = first slot whose
\* conversion gave JS_EXCEPTION, cyc = slot that tripped the cycle check,
\* nsk = slot holding a non-string key, ctor = the constructor was invoked,
\* stored = an exception value was stored into js.
NewFrame(fn, v, r) ==
    [fn |-> fn, v |-> v, i |-> 1, pc |-> "run", js |-> NewId(r),
     jk |-> NoValue, hasExc |-> 0, refs |-> {}, own |-> {NewId(r)},
     r0 |-> Len(r.thrown), circ |-> 0, seen |-> {}, conv |-> {},
     failAt |-> 0, cyc |-> 0, nsk |-> 0, ctor |-> FALSE]

\* the prologue of a converter: the destination container is allocated
\* before the loop
Prologue(fn, r) == JS_New(r, IF fn = "JsObject" THEN "Object" ELSE "Array", <<>>)

Next_(f, r) == [op |-> "next", f |-> f, rt |-> r, arg |-> "", val |-> NoValue]
Call_(f, r, x) == [op |-> "call", f |-> f, rt |-> r, arg |-> x, val |-> NoValue]
Ret_(f, r, v) == [op |-> "ret", f |-> f, rt |-> r, arg |-> "", val |-> v]

\* i++ of the loops
NextIndex(i) == i + 1

\* the argument of the recursive call jobject_to_js_value(env, context, element)
CalleeArgContainer(container, element) == container
CalleeArg(container, element) == element

\* jobject_to_js_value(env, context, element) from inside a converter: a
\* scalar element is converted on the spot (op "leaf" carries js_element
\* back to the converter); a container element is a recursive call, and the
\* converter waits at pcWait for its result
Recurse(f, r, element, pcWait) ==
    LET x == CalleeArg(f.v, element) IN
    IF x \in Leaves
    THEN LET c == ConvertLeaf(r, x) IN
         [op |-> "leaf", f |-> f, rt |-> c.rt, arg |-> "", val |-> c.val]
    ELSE Call_([f EXCEPT !.pc = pcWait], r, x)

FirstFail(f, slot) == IF f.failAt = 0 THEN slot ELSE f.failAt

----------------------------------------------------------------------------
(* java_list_to_js_array *)

\* lines 37-42
ListEpilogue(f, r) ==
    IF f.hasExc # 0
    THEN Ret_([f EXCEPT !.own = @ \ {f.js}], JS_FreeValue(r, f.js), JS_EXCEPTION)
    ELSE Ret_([f EXCEPT !.own = @ \ {f.js}], r, JSRef(f.js))

\* lines 30-35: the element's conversion has returned js_element
ListAfter(f, r, js_element) ==
    IF ~JS_IsException(js_element)
    THEN Next_([f EXCEPT !.pc = "run", !.refs = @ \ {"element"},
                         !.i = NextIndex(@)],
               JS_SetProperty(r, f.js, f.i, js_element))
    ELSE Next_([f EXCEPT !.pc = "run", !.refs = @ \ {"element"},
                         !.hasExc = 1, !.failAt = FirstFail(f, f.i),
                         !.i = NextIndex(@)],
               r)

\* the cycle branch, lines 23-28: release the element, raise, leave the loop
ListCycleNoFree(f, r) ==
    Ret_([f EXCEPT !.circ = @ + 1, !.cyc = f.i], throw_circular_ref_error(r),
         JS_EXCEPTION)
ListCycle(f, r) ==
    ListEpilogue([f EXCEPT !.refs = @ \ {"element"}, !.hasExc = 1,
                           !.circ = @ + 1, !.cyc = f.i],
                 throw_circular_ref_error(r))

\* lines 20-29: the loop test, the element fetch, the cycle check, the call
ListBody(f, r) ==
    IF f.i <= Size(f.v) /\ f.hasExc = 0
    THEN LET element == Items(f.v)[f.i]
             f1 == [f EXCEPT !.refs = @ \cup {"element"}, !.seen = @ \cup {f.i}]
         IN  IF IsSameObject(f.v, element)
             THEN ListCycle(f1, r)
             ELSE LET c == Recurse([f1 EXCEPT !.conv = @ \cup {f.i}],
                                    r, element, "wait")
                  IN  IF c.op = "call" THEN c
                      ELSE ListAfter(c.f, c.rt, c.val)
    ELSE ListEpilogue(f, r)

----------------------------------------------------------------------------
(* java_set_to_js_set *)

\* lines 94-100: the constructor call, whatever the loop left behind
SetEpilogue(f, r) ==
    LET c == new_js_object_from_constructor(r, "Set", f.js) IN
    Ret_([f EXCEPT !.own = @ \ {f.js}, !.ctor = c.called],
         JS_FreeValue(c.rt, f.js), c.val)

\* lines 85-91
SetAfter(f, r, item) ==
    IF JS_IsException(item)
    THEN SetEpilogue([f EXCEPT !.pc = "run", !.refs = @ \ {"key"},
                               !.failAt = FirstFail(f, f.i)], r)
    ELSE Next_([f EXCEPT !.pc = "run", !.refs = @ \ {"key"}, !.i = @ + 1],
               JS_SetProperty(r, f.js, f.i, item))

\* lines 75-84
SetBody(f, r) ==
    IF f.i <= Size(f.v)
    THEN LET key == Items(f.v)[f.i]
             f1 == [f EXCEPT !.refs = @ \cup {"key"}, !.seen = @ \cup {f.i}]
         IN  IF IsSameObject(f.v, key)
             THEN Ret_([f1 EXCEPT !.refs = @ \ {"key"}, !.own = @ \ {f.js},
                                  !.circ = @ + 1, !.cyc = f.i],
                       JS_FreeValue(throw_circular_ref_error(r), f.js),
                       JS_EXCEPTION)
             ELSE LET c == Recurse([f1 EXCEPT !.conv = @ \cup {f.i}],
                                    r, key, "wait")
                  IN  IF c.op = "call" THEN c
                      ELSE SetAfter(c.f, c.rt, c.val)
    ELSE SetEpilogue(f, r)

----------------------------------------------------------------------------
(* java_map_to_js_map: the entry (key, value) is the slot pair (i, i + 1) *)

\* lines 169-175
MapEpilogue(f, r) ==
    LET c == new_js_object_from_constructor(r, "Map", f.js) IN
    Ret_([f EXCEPT !.own = @ \ {f.js}, !.ctor = c.called],
         JS_FreeValue(c.rt, f.js), c.val)

\* lines 149-166
MapAfterValue(f, r, js_value) ==
    IF JS_IsException(js_value)
    THEN Ret_([f EXCEPT !.pc = "run", !.refs = @ \ {"entry", "key", "value"},
                        !.failAt = FirstFail(f, f.i + 1)],
              r, JS_EXCEPTION)
    ELSE LET r1 == JS_New(r, "Array", <<f.jk, js_value>>)
             js_entry == JSRef(NewId(r))
         IN  Next_([f EXCEPT !.pc = "run",
                             !.refs = @ \ {"entry", "key", "value"},
                             !.own = @ \ RefIds(f.jk), !.jk = NoValue,
                             !.i = @ + 2],
                   JS_SetProperty(r1, f.js, (f.i + 1) \div 2, js_entry))

\* lines 130-148
MapAfterKey(f, r, js_key) ==
    IF JS_IsException(js_key)
    THEN Ret_([f EXCEPT !.pc = "run", !.refs = @ \ {"entry", "key"},
                        !.failAt = FirstFail(f, f.i)],
              r, JS_EXCEPTION)
    ELSE LET value == Items(f.v)[f.i + 1]
             f1 == [f EXCEPT !.pc = "run", !.jk = js_key,
                             !.own = @ \cup RefIds(js_key),
                             !.refs = @ \cup {"value"},
                             !.seen = @ \cup {f.i + 1}]
         IN  IF IsSameObject(f.v, value)
             THEN Ret_([f1 EXCEPT !.refs = @ \ {"entry", "key", "value"},
                                  !.own = @ \ {f.js},
                                  !.circ = @ + 1, !.cyc = f.i + 1],
                       JS_FreeValue(throw_circular_ref_error(r), f.js),
                       JS_EXCEPTION)
             ELSE LET c == Recurse([f1 EXCEPT !.conv = @ \cup {f.i + 1}],
                                    r, value, "waitValue")
                  IN  IF c.op = "call" THEN c
                      ELSE MapAfterValue(c.f, c.rt, c.val)

\* lines 116-129
MapBody(f, r) ==
    IF f.i <= Size(f.v)
    THEN LET key == Items(f.v)[f.i]
             f1 == [f EXCEPT !.refs = @ \cup {"entry", "key"},
                             !.seen = @ \cup {f.i}]
         IN  IF IsSameObject(f.v, key)
             THEN Ret_([f1 EXCEPT !.refs = @ \ {"entry", "key"},
                                  !.own = @ \ {f.js},
                                  !.circ = @ + 1, !.cyc = f.i],
                       JS_FreeValue(throw_circular_ref_error(r), f.js),
                       JS_EXCEPTION)
             ELSE LET c == Recurse([f1 EXCEPT !.conv = @ \cup {f.i}],
                                    r, key, "waitKey")
                  IN  IF c.op = "call" THEN c
                      ELSE MapAfterKey(c.f, c.rt, c.val)
    ELSE MapEpilogue(f, r)

----------------------------------------------------------------------------
(* java_map_to_js_object: the entry (key, value) is the slot pair (i, i + 1) *)

\* lines 290-299
ObjectAfterValue(f, r, js_value) ==
    IF JS_IsException(js_value)
    THEN Ret_([f EXCEPT !.pc = "run", !.failAt = FirstFail(f, f.i + 1)],
              r, js_value)
    ELSE Next_([f EXCEPT !.pc = "run",
                         !.refs = @ \ {"atom", "str_key", "entry", "key",
                                       "value"},
                         !.i = @ + 2],
               JS_SetProperty(r, f.js, (f.i + 1) \div 2, js_value))

\* lines 266-273: the key is no java.lang.String
ObjectKeyTypeIgnored(f, r) ==
    Next_([f EXCEPT !.refs = @ \ {"entry", "key"}, !.i = @ + 2], r)
ObjectKeyType(f, r) ==
    Ret_([f EXCEPT !.refs = @ \ {"entry", "key"}, !.nsk = f.i],
         JS_Throw(r, "TypeMappingError"), JS_EXCEPTION)

\* lines 274-289: the key is a string
ObjectValue(f, r) ==
    LET value == Items(f.v)[f.i + 1]
        f1 == [f EXCEPT !.refs = @ \cup {"str_key", "value"},
                        !.seen = @ \cup {f.i + 1}]
    IN  IF IsSameObject(f.v, value)
        THEN Ret_([f1 EXCEPT !.refs = @ \ {"entry", "key", "value"},
                             !.own = @ \ {f.js},
                             !.circ = @ + 1, !.cyc = f.i + 1],
                  JS_FreeValue(throw_circular_ref_error(r), f.js),
                  JS_EXCEPTION)
        ELSE LET c == Recurse([f1 EXCEPT !.refs = @ \cup {"atom"},
                                         !.conv = @ \cup {f.i + 1}],
                              r, value, "waitValue")
             IN  IF c.op = "call" THEN c
                 ELSE ObjectAfterValue(c.f, c.rt, c.val)

\* lines 251-273 and 302
ObjectBody(f, r) ==
    IF f.i <= Size(f.v)
    THEN LET key == Items(f.v)[f.i]
             f1 == [f EXCEPT !.refs = @ \cup {"entry", "key"},
                             !.seen = @ \cup {f.i}]
         IN  IF IsSameObject(f.v, key)
             THEN Ret_([f1 EXCEPT !.refs = @ \ {"entry", "key"},
                                  !.own = @ \ {f.js},
                                  !.circ = @ + 1, !.cyc = f.i],
                       JS_FreeValue(throw_circular_ref_error(r), f.js),
                       JS_EXCEPTION)
             ELSE IF ~IsStringKey(key)
             THEN ObjectKeyType(f1, r)
             ELSE ObjectValue(f1, r)
    ELSE Ret_([f EXCEPT !.own = @ \ {f.js}], r, JSRef(f.js))

----------------------------------------------------------------------------
(* jobject_to_js_value, the object array branch *)

\* lines 449-453
ArrayEpilogue(f, r) ==
    IF f.hasExc # 0
    THEN Ret_(f, r, JS_EXCEPTION)
    ELSE Ret_([f EXCEPT !.own = @ \ {f.js}], r, JSRef(f.js))

\* lines 446-447: js_element is stored without a look at it
ArrayAfter(f, r, js_element) ==
    Next_([f EXCEPT !.pc = "run", !.refs = @ \ {"element"},
                    !.failAt = IF JS_IsException(js_element)
                               THEN FirstFail(f, f.i) ELSE @,
                    !.i = NextIndex(@)],
          JS_SetProperty(r, f.js, f.i, js_element))

\* lines 435-445
ArrayBody(f, r) ==
    IF f.i <= Size(f.v)
    THEN LET element == Items(f.v)[f.i]
             f1 == [f EXCEPT !.refs = @ \cup {"element"}, !.seen = @ \cup {f.i}]
         IN  IF IsSameObject(f.v, element)
             THEN ArrayEpilogue([f1 EXCEPT !.refs = @ \ {"element"},
                                           !.own = @ \ {f.js}, !.hasExc = 1,
                                           !.circ = @ + 1, !.cyc = f.i],
                                throw_circular_ref_error(JS_FreeValue(r, f.js)))
             ELSE LET c == Recurse([f1 EXCEPT !.conv = @ \cup {f.i}],
                                    r, element, "wait")
                  IN  IF c.op = "call" THEN c
                      ELSE ArrayAfter(c.f, c.rt, c.val)
    ELSE ArrayEpilogue(f, r)

----------------------------------------------------------------------------
(* The machine *)

Top == stack[Len(stack)]
Callers == SubSeq(stack, 1, Len(stack) - 1)

Running(fn, pc) ==
    /\ ~crashed
    /\ stack # <<>>
    /\ Top.fn = fn
    /\ Top.pc = pc
    /\ (pc = "run") = (ret = NoValue)

\* the effect of one step of the converter on top of the stack: it goes on,
\* it calls jobject_to_js_value on a container (one more frame, or the end of
\* the C stack), or it returns to its caller
Apply(res) ==
    /\ UNCHANGED <<heap, jsGlobals, probe, out>>
    /\ CASE res.op = "next" ->
              /\ stack' = Append(Callers, res.f)
              /\ rt' = res.rt
              /\ ret' = NoValue
              /\ UNCHANGED <<last, crashed>>
         [] res.op = "call" ->
              IF Len(stack) >= MaxDepth
              THEN /\ crashed' = TRUE
                   /\ stack' = Append(Callers, res.f)
                   /\ rt' = res.rt
                   /\ ret' = NoValue
                   /\ UNCHANGED last
              ELSE /\ stack' = Append(Append(Callers, res.f),
                                      NewFrame(Route(res.arg), res.arg, res.rt))
                   /\ rt' = Prologue(Route(res.arg), res.rt)
                   /\ ret' = NoValue
                   /\ UNCHANGED <<last, crashed>>
         [] res.op = "ret" ->
              /\ stack' = Callers
              /\ rt' = res.rt
              /\ ret' = res.val
              /\ last' = <<[f |-> res.f, val |-> res.val, rt |-> res.rt,
                            during |-> SubSeq(res.rt.thrown, res.f.r0 + 1,
                                              Len(res.rt.thrown))]>>
              /\ UNCHANGED crashed

ListStep == Running("List", "run") /\ Apply(ListBody(Top, rt))
ListResume == Running("List", "wait") /\ Apply(ListAfter(Top, rt, ret))
SetStep == Running("Set", "run") /\ Apply(SetBody(Top, rt))
SetResume == Running("Set", "wait") /\ Apply(SetAfter(Top, rt, ret))
MapStep == Running("Map", "run") /\ Apply(MapBody(Top, rt))
MapResumeKey == Running("Map", "waitKey") /\ Apply(MapAfterKey(Top, rt, ret))
MapResumeValue == Running("Map", "waitValue") /\ Apply(MapAfterValue(Top, rt, ret))
ObjectStep == Running("JsObject", "run") /\ Apply(ObjectBody(Top, rt))
ObjectResume ==
    Running("JsObject", "waitValue") /\ Apply(ObjectAfterValue(Top, rt, ret))
ArrayStep == Running("ObjectArray", "run") /\ Apply(ArrayBody(Top, rt))
ArrayResume == Running("ObjectArray", "wait") /\ Apply(ArrayAfter(Top, rt, ret))

----------------------------------------------------------------------------
(* Initial states: the host object graphs within the bounds *)

BoundedSeq(S, n) == UNION {[1..k -> S] : k \in 0..n}

IsMapClass(cls) == cls \in {"JsObject", "LinkedHashMap"}

\* the slots of a container that hold set members or map keys
KeySlots(o) ==
    IF IsMapClass(o.cls) THEN {j \in 1..Len(o.items) : j % 2 = 1}
    ELSE IF o.cls = "HashSet" THEN 1..Len(o.items)
    ELSE {}

\* a java.util.Map holds whole entries, and neither a Map nor a Set holds
\* the same object twice as a key or member
WellFormed(o) ==
    /\ IsMapClass(o.cls) => Len(o.items) % 2 = 0
    /\ \A j, k \in KeySlots(o) :
          (j # k /\ o.items[j] \in Obj) => o.items[j] # o.items[k]

EmptyList == [cls |-> "ArrayList", items |-> <<>>]

RangeOf(s) == {s[j] : j \in 1..Len(s)}

\* the graph whose slots are `cells`, the first k of them A's, the rest B's
HostGraph(cells, k, ca, cb) ==
    [A |-> [cls |-> ca, items |-> SubSeq(cells, 1, k)],
     B |-> [cls |-> cb, items |-> SubSeq(cells, k + 1, Len(cells))]]

\* an object the converter cannot reach is left out of the enumeration
Admissible(h) ==
    /\ WellFormed(h.A)
    /\ WellFormed(h.B)
    /\ "B" \notin RangeOf(h.A.items) => h.B = EmptyList

EmptyRuntime == [objs |-> <<>>, pending |-> "none", thrown |-> <<>>]

EmptyGraph == [A |-> EmptyList, B |-> EmptyList]

\* nothing has been handed to the converter yet
Init ==
    /\ heap = EmptyGraph
    /\ jsGlobals = {"Set", "Map"}
    /\ stack = <<>>
    /\ ret = NoValue
    /\ rt = EmptyRuntime
    /\ last = <<>>
    /\ crashed = FALSE
    /\ probe = <<>>
    /\ out = NoValue

\* the embedding calls jobject_to_js_value(env, context, A) on a host object
\* graph, in a context whose global object has the Set and Map constructors
\* or has lost them
Start ==
    /\ ~crashed
    /\ stack = <<>>
    /\ last = <<>>
    /\ probe = <<>>
    /\ \E cells \in BoundedSeq(Ref, MaxCells), ca, cb \in ContainerClasses :
          \E k \in 0..Len(cells) :
             LET fn == Dispatch(IsaOfClass(ca), NameOfClass(ca)) IN
             /\ Admissible(HostGraph(cells, k, ca, cb))
             /\ heap' = HostGraph(cells, k, ca, cb)
             /\ stack' = <<NewFrame(fn, "A", rt)>>
             /\ rt' = Prologue(fn, rt)
    /\ jsGlobals' \in {{"Set", "Map"}, {}}
    /\ UNCHANGED <<ret, last, crashed, probe, out>>

\* The type dispatcher on a single value.

\* java.lang.Boolean, Integer, Long, Float, Double and String are final
\* classes: a value of one of them is an instance of no other kind
FinalKinds == {"Boolean", "Integer", "Long", "Float", "Double", "String"}

\* what a host value can be an instance of: one final class, or any mix of
\* List, Map, Set and Throwable; a JsObject is a Map
IsaSets ==
    {{k} : k \in FinalKinds} \cup
    {isa \in SUBSET (Kinds \ FinalKinds) : "JsObject" \in isa => "Map" \in isa}

Payloads(isa) ==
    IF isa = {"Long"} THEN Longs
    ELSE IF isa \in {{"Integer"}, {"Float"}, {"Double"}}
         THEN {FromJint(j) : j \in JintSamples}
    ELSE IF isa = {"Boolean"} THEN {FromJint(0), FromJint(1)}
    ELSE {Zero}

ContainerRoutes == {"List", "JsObject", "Map", "Set", "ObjectArray"}

\* jobject_to_js_value on a single value: null, or else the route the
\* dispatcher takes and, for a route that does not recurse, the value it
\* returns
ConvertProbe ==
    /\ stack = <<>>
    /\ last = <<>>
    /\ probe = <<>>
    /\ \/ /\ probe' = <<[null |-> TRUE, isa |-> {}, name |-> "", num |-> Zero]>>
          /\ out' = [tag |-> "value", route |-> "Null", val |-> JS_NULL]
          /\ rt' = rt
       \/ \E isa \in IsaSets, name \in ClassNames :
             \E num \in Payloads(isa) :
                LET route == Dispatch(isa, name) IN
                /\ probe' = <<[null |-> FALSE, isa |-> isa, name |-> name,
                               num |-> num]>>
                /\ IF route \in ContainerRoutes
                   THEN /\ out' = [tag |-> "converter", route |-> route]
                        /\ rt' = rt
                   ELSE \E ub \in WrongReceiverOutcomes :
                           LET c == ConvertScalar(rt, route, num, ub) IN
                           /\ out' = [tag |-> "value", route |-> route,
                                      val |-> c.val]
                           /\ rt' = c.rt
    /\ UNCHANGED <<heap, jsGlobals, stack, ret, last, crashed>>

\* a step of the conversion in progress
Step ==
    \/ ListStep \/ ListResume
    \/ SetStep \/ SetResume
    \/ MapStep \/ MapResumeKey \/ MapResumeValue
    \/ ObjectStep \/ ObjectResume
    \/ ArrayStep \/ ArrayResume

Next == Start \/ ConvertProbe \/ Step

Spec == Init /\ [][Next]_vars

Done == stack = <<>> /\ last # <<>>

----------------------------------------------------------------------------
(* Vocabulary of the properties *)

\* a conversion call has returned; L is the latest one: its frame, its
\* result, the runtime as it left it, and the exceptions raised while it ran
Exited == last # <<>>
L == last[1]

\* the destination container the returning call was building
Built == L.rt.objs[L.f.js]

\* the exception the returning call raised last ("none": it raised none);
\* the exceptions raised before it are those of the conversions it called
Raised ==
    IF L.during = <<>> THEN "none" ELSE L.during[Len(L.during)]

\* some slot of v, at any depth, holds the exception value
RECURSIVE HoldsException(_, _)
HoldsException(objs, v) ==
    IF ~IsRefValue(v) THEN JS_IsException(v)
    ELSE \E j \in 1..Len(objs[v.id].slots) :
            HoldsException(objs, objs[v.id].slots[j])

\* the slots of the returning call's container that hold the container itself
SelfSlotsSeen == {j \in L.f.seen : Items(L.f.v)[j] = L.f.v}

\* the key slots the returning string-keyed-object conversion reached whose
\* key is no string
NonStringKeysSeen ==
    {j \in L.f.seen : j % 2 = 1 /\ ~IsStringKey(Items(L.f.v)[j])}

Contained(o) == RangeOf(heap[o].items) \cap Obj

RECURSIVE ReachableIn(_, _)
ReachableIn(S, n) ==
    IF n = 0 THEN S
    ELSE ReachableIn(S \cup UNION {Contained(o) : o \in S}, n - 1)

\* the containers reachable from o in one or more containment steps
ReachableFrom(o) == ReachableIn(Contained(o), Cardinality(Obj))

NoDirectSelfContainment == \A o \in Obj : o \notin Contained(o)
Acyclic == \A o \in Obj : o \notin ReachableFrom(o)

----------------------------------------------------------------------------
(* Properties *)

\* C1: a conversion call returns the exception value exactly when an
\* exception was raised during the call; a call that returns anything else
\* leaves no exception pending and returns a value none of whose slots, at
\* any depth, holds the exception value.
C1_ExceptionIffRaised ==
    Exited =>
        /\ JS_IsException(L.val) <=> L.during # <<>>
        /\ ~JS_IsException(L.val) =>
              /\ L.rt.pending = "none"
              /\ ~HoldsException(L.rt.objs, L.val)

\* C2: a Set conversion in which a member's conversion failed, or a member
\* was the set itself, returns the exception value, has discarded the
\* intermediate array, and has not invoked the Set constructor.
C2_SetFailureSkipsConstructor ==
    (Exited /\ L.f.fn = "Set" /\ (L.f.failAt # 0 \/ SelfSlotsSeen # {})) =>
        /\ JS_IsException(L.val)
        /\ Built.freed = 1
        /\ ~L.f.ctor

\* C3: no converter hands an element identical to its container to the
\* recursive conversion; a converter that visited such an element raised
\* CircularReferenceError once, and it is the exception left pending,
\* discarded its destination container exactly once, and returned the
\* exception value.
C3_CycleGuard ==
    /\ \A d \in 1..Len(stack) :
          \A j \in stack[d].conv : Items(stack[d].v)[j] # stack[d].v
    /\ Exited =>
          /\ \A j \in L.f.conv : Items(L.f.v)[j] # L.f.v
          /\ SelfSlotsSeen # {} =>
                /\ L.f.circ = 1
                /\ Raised = "CircularReferenceError"
                /\ L.rt.pending = "CircularReferenceError"
                /\ Built.freed = 1
                /\ JS_IsException(L.val)

\* a list whose second element is the list itself has been converted
C3_Witness ==
    /\ Exited
    /\ L.f.fn = "List"
    /\ L.f.cyc = 2
    /\ Items(L.f.v)[2] = L.f.v

Phase(f, returned) ==
    IF f.pc = "run" THEN 0
    ELSE IF f.pc = "waitValue" THEN (IF returned THEN 4 ELSE 3)
    ELSE (IF returned THEN 2 ELSE 1)

Position(stk, r) ==
    [d \in 1..Len(stk) |->
        5 * stk[d].i + Phase(stk[d], d = Len(stk) /\ r # NoValue)]

\* p comes before q in the lexicographic order
Before(p, q) ==
    \E k \in 1..Len(q) :
        /\ k <= Len(p) + 1
        /\ \A j \in 1..(k - 1) : p[j] = q[j]
        /\ k <= Len(p) => p[k] < q[k]

\* the points at which a converter has a step to take
StepPoints ==
    {<<"List", "run">>, <<"List", "wait">>, <<"Set", "run">>,
     <<"Set", "wait">>, <<"Map", "run">>, <<"Map", "waitKey">>,
     <<"Map", "waitValue">>, <<"JsObject", "run">>,
     <<"JsObject", "waitValue">>, <<"ObjectArray", "run">>,
     <<"ObjectArray", "wait">>}

\* the conversion in progress can take a step, no container is being
\* converted inside its own conversion, and every call is within its
\* container
Ready ==
    /\ ~crashed
    /\ <<Top.fn, Top.pc>> \in StepPoints
    /\ (Top.pc = "run") = (ret = NoValue)
    /\ \A d, e \in 1..Len(stack) : d # e => stack[d].v # stack[e].v
    /\ \A d \in 1..Len(stack) : stack[d].i <= Size(stack[d].v) + 1

\* the step taken ends the conversion or moves its position forward
Advances == Done' \/ Before(Position(stack, ret), Position(stack', ret'))

PrecedenceOrder ==
    <<"Boolean", "Integer", "Long", "Float", "Double", "String", "List",
      "JsObject", "Map", "Set", "Throwable">>

FallbackRoutes ==
    {"Unit", "[Z", "[I", "[J", "[F", "[D", "ObjectArray", "Unsupported"}

\* the converter the order of section 4.1 selects for a value
FirstMatch(isa, name) ==
    LET matching == {n \in 1..Len(PrecedenceOrder) : PrecedenceOrder[n] \in isa}
    IN  IF matching = {} THEN "fallback"
        ELSE PrecedenceOrder[CHOOSE n \in matching : \A m \in matching : n <= m]

\* C6: the dispatcher routes a value to the converter of the first kind, in
\* the order Boolean, Int32, Int64, Float32, Float64, String, List,
\* StringKeyedObject, OrderedMap, Set, Throwable, that the value is an
\* instance of, and to the class-name fallback only when it is an instance
\* of none; a string-keyed object, which is a map too, is converted by the
\* plain-object converter and comes out as a plain object.
C6_DispatchPrecedence ==
    /\ (out # NoValue /\ ~probe[1].null) =>
          IF FirstMatch(probe[1].isa, probe[1].name) = "fallback"
          THEN out.route \in FallbackRoutes
          ELSE out.route = FirstMatch(probe[1].isa, probe[1].name)
    /\ \A d \in 1..Len(stack) :
          LET cls == ClassOf(stack[d].v) IN
          IF FirstMatch(IsaOfClass(cls), NameOfClass(cls)) = "fallback"
          THEN stack[d].fn \in FallbackRoutes
          ELSE stack[d].fn = FirstMatch(IsaOfClass(cls), NameOfClass(cls))
    /\ (Exited /\ ClassOf(L.f.v) = "JsObject" /\ IsRefValue(L.val)) =>
          L.rt.objs[L.val.id].tag = "Object"

\* a value that is a JsObject and a Map has gone to the plain-object converter
C6_Witness ==
    /\ out # NoValue
    /\ probe[1].isa = {"JsObject", "Map"}
    /\ out.route = "JsObject"

\* C7: an object-array conversion in which the conversion of element i
\* failed converted no later element, stored no exception value into the
\* destination array, discarded that array and returned the exception value.
C7_ObjectArrayStopsAtFailure ==
    (Exited /\ L.f.fn = "ObjectArray" /\ L.f.failAt # 0) =>
        /\ \A k \in L.f.conv : k <= L.f.failAt
        /\ \A k \in 1..Len(Built.slots) : ~JS_IsException(Built.slots[k])
        /\ Built.freed = 1
        /\ JS_IsException(L.val)

\* C8: a container conversion that returns the exception value holds no
\* destination value any more: the container it was building has been
\* released exactly once, and so has every converted key or value it had
\* not yet stored.
C8_NothingLeakedOnFailure ==
    (Exited /\ JS_IsException(L.val)) =>
        /\ L.f.own = {}
        /\ Built.freed = 1

\* C9: a converter that returns holds none of the per-element references it
\* acquired.
C9_ElementReferencesReleased == Exited => L.f.refs = {}

\* C10: a boxed Long n is converted to the int64 number n.
C10_LongFidelity ==
    (out # NoValue /\ probe[1].isa = {"Long"}) =>
        out.val = [tag |-> "int64", num |-> probe[1].num]

====
